---- MODULE Spec2Model ----
(***************************************************************************)
(* Model of zoubida, the static file server of the zou repository          *)
(* (src/zoubida/src/main.rs): start-up of the two listeners, the content   *)
(* handler get_static_file behind most_important_middleware, the plaintext *)
(* redirect handler, and the pure functions subdomain and make_https.      *)
(*                                                                         *)
(* Text (a Rust String, &str or PathBuf on unix) is a sequence of          *)
(* one-character strings, so that splitting, replacing and joining are     *)
(* computed and not assumed.  An Option is a sequence of length 0 (None)   *)
(* or 1 (Some).                                                            *)
(***************************************************************************)
EXTENDS Integers, Sequences, FiniteSets, TLC

VARIABLES
    args,       \* the parsed command line (Args)
    mainPc,     \* position of main()
    config,     \* Config {http, https} built by main
    mode,       \* the ServeMode held by the router (with_state), None before
    redirPc,    \* the task spawned for redirect_http_to_https
    failures,   \* the start-up steps that have failed so far
    reqs,       \* the requests in flight, one record per connection slot
    subHost,    \* subdomain(): the host argument
    subResult,  \* subdomain(): the value returned by the last call
    subCalls,   \* subdomain(): number of calls made on subHost
    rdHost,     \* make_https(): host argument
    rdUri,      \* make_https(): uri argument (its path_and_query, an Option)
    rdTo,       \* make_https(): the `to` port
    rdResult    \* make_https(): the result of the call

vars == <<args, mainPc, config, mode, redirPc, failures, reqs,
          subHost, subResult, subCalls, rdHost, rdUri, rdTo, rdResult>>

serverVars == <<args, mainPc, config, mode, redirPc, failures, reqs>>
subVars == <<subHost, subResult, subCalls>>
rdVars == <<rdHost, rdUri, rdTo, rdResult>>

(***************************************************************************)
(* Bounds of the model.                                                    *)
(***************************************************************************)
MaxReq == 2
MaxSubHostLen == 7
MaxRdHostLen == 5
MaxSubCalls == 2

(***************************************************************************)
(* Text helpers.                                                           *)
(***************************************************************************)
None == <<>>
Some(x) == <<x>>

RECURSIVE StringsUpTo(_, _)
StringsUpTo(alphabet, n) ==
    IF n = 0 THEN {<<>>}
    ELSE LET shorter == StringsUpTo(alphabet, n - 1)
         IN shorter \cup {Append(s, c) : s \in {t \in shorter : Len(t) = n - 1}, c \in alphabet}

\* s[from..] starts with pat
StartsWithAt(s, from, pat) ==
    /\ from + Len(pat) - 1 <= Len(s)
    /\ \A i \in 1..Len(pat) : s[from + i - 1] = pat[i]

\* str::rfind(c): index of the last occurrence of character c, 0 when absent
rfind(s, c) ==
    LET hits == {i \in 1..Len(s) : s[i] = c}
    IN IF hits = {} THEN 0 ELSE CHOOSE i \in hits : \A j \in hits : j <= i

\* str::rsplitn(n, c): at most n pieces, split from the right, last piece first;
\* the n-th piece is everything left of the (n-1)-th separator from the right
RECURSIVE rsplitn(_, _, _)
rsplitn(n, s, c) ==
    IF n = 0 THEN <<>>
    ELSE IF n = 1 \/ rfind(s, c) = 0 THEN <<s>>
    ELSE LET k == rfind(s, c)
         IN <<SubSeq(s, k + 1, Len(s))>> \o rsplitn(n - 1, SubSeq(s, 1, k - 1), c)

\* Iterator::skip(k).next() on a sequence of pieces
SkipNext(pieces, k) ==
    IF Len(pieces) > k THEN Some(pieces[k + 1]) ELSE None

(***************************************************************************)
(* fn subdomain(host: &str) -> Option<&str>                                *)
(***************************************************************************)
subdomain_first_label(host) ==
    LET pieces == rsplitn(3, host, ".")
    IN IF Len(pieces) > 2
       THEN LET k == CHOOSE i \in 1..Len(host) : host[i] = "." /\ \A j \in 1..(i - 1) : host[j] # "."
            IN Some(SubSeq(host, 1, k - 1))
       ELSE None

subdomain(host) == SkipNext(rsplitn(3, host, "."), 2)

(***************************************************************************)
(* Specification SpecSub: subdomain() called, repeatedly, on every host of *)
(* at most MaxSubHostLen characters over SubAlphabet.                      *)
(***************************************************************************)
SubAlphabet == {"a", "b", "."}
SubHosts == StringsUpTo(SubAlphabet, MaxSubHostLen)

\* a response: status, body, and the header list in insertion order
NoResponse == [status |-> 0, body |-> "", headers |-> <<>>]

\* a connection slot with no request
IdleSlot == [pc |-> "idle", listener |-> "none", host |-> None, uri |-> <<>>,
             dir |-> None, outcome |-> "none", resp |-> NoResponse]

\* the server is not run at all (the specifications of the pure functions)
ServerIdle ==
    /\ args = [tls |-> FALSE, mode |-> "Path", dir |-> <<"/", "r">>, port |-> 4242]
    /\ mainPc = "off"
    /\ config = None
    /\ mode = None
    /\ redirPc = "none"
    /\ failures = {}
    /\ reqs = [s \in 1..MaxReq |-> IdleSlot]

RdIdle ==
    /\ rdHost = <<>>
    /\ rdUri = None
    /\ rdTo = 443
    /\ rdResult = [tag |-> "uncalled"]

SubIdle ==
    /\ subHost = <<>>
    /\ subResult = [tag |-> "uncalled"]
    /\ subCalls = 0

InitSub ==
    /\ subHost \in SubHosts
    /\ subResult = [tag |-> "uncalled"]
    /\ subCalls = 0
    /\ ServerIdle
    /\ RdIdle

CallSubdomain ==
    /\ subCalls < MaxSubCalls
    /\ subResult' = [tag |-> "returned", value |-> subdomain(subHost)]
    /\ subCalls' = subCalls + 1
    /\ UNCHANGED <<subHost, serverVars, rdVars>>

NextSub == CallSubdomain

SpecSub == InitSub /\ [][NextSub]_vars

(***************************************************************************)
(* The labels of a host, left to right, and their re-assembly.             *)
(***************************************************************************)
RECURSIVE Labels(_)
Labels(s) ==
    LET hits == {i \in 1..Len(s) : s[i] = "."}
    IN IF hits = {} THEN <<s>>
       ELSE LET k == CHOOSE i \in hits : \A j \in hits : i <= j
            IN <<SubSeq(s, 1, k - 1)>> \o Labels(SubSeq(s, k + 1, Len(s)))

RECURSIVE JoinDots(_)
JoinDots(ls) ==
    IF Len(ls) = 0 THEN <<>>
    ELSE IF Len(ls) = 1 THEN ls[1]
    ELSE ls[1] \o <<".">> \o JoinDots(Tail(ls))

\* C5: for a host of three or more dot-separated labels subdomain(host) is
\* Some(all labels but the last two, re-joined by dots in order); for a host
\* of two or fewer labels it is None; every call on the same host, the first
\* and the repeated ones, returns that same value.
C5_SubdomainExtraction ==
    subResult.tag = "returned" =>
        LET ls == Labels(subHost)
        IN IF Len(ls) >= 3
           THEN subResult.value = Some(JoinDots(SubSeq(ls, 1, Len(ls) - 2)))
           ELSE subResult.value = None

\* a repeated call has returned on a host whose sub-domain has an inner dot
C5_Witness ==
    /\ subCalls = 2
    /\ subHost = <<"a", ".", "b", ".", "a", ".", "b">>
    /\ subResult = [tag |-> "returned", value |-> Some(<<"a", ".", "b">>)]

(***************************************************************************)
(* redirect_http_to_https: the inner fn make_https.                        *)
(***************************************************************************)
Digit(d) == CASE d = 0 -> "0" [] d = 1 -> "1" [] d = 2 -> "2" [] d = 3 -> "3"
              [] d = 4 -> "4" [] d = 5 -> "5" [] d = 6 -> "6" [] d = 7 -> "7"
              [] d = 8 -> "8" [] d = 9 -> "9"

\* u16::to_string
RECURSIVE to_string(_)
to_string(n) ==
    IF n < 10 THEN <<Digit(n)>> ELSE to_string(n \div 10) \o <<Digit(n % 10)>>

\* str::replace(from, to): every non-overlapping match, scanning left to right
RECURSIVE ReplaceFrom(_, _, _, _)
ReplaceFrom(s, i, from, to) ==
    IF i > Len(s) THEN <<>>
    ELSE IF StartsWithAt(s, i, from) THEN to \o ReplaceFrom(s, i + Len(from), from, to)
    ELSE <<s[i]>> \o ReplaceFrom(s, i + 1, from, to)

replace(s, from, to) == ReplaceFrom(s, 1, from, to)

\* "...".parse::<Authority>() (http crate): the empty text, a byte that is no
\* URI character or that ends the authority ('/', '?', '#'), and a second
\* colon outside brackets are errors; the text after the colon is not checked
AuthorityBadChars == {" ", "/", "?", "#"}
AuthorityParses(s) ==
    /\ Len(s) > 0
    /\ \A i \in 1..Len(s) : s[i] \notin AuthorityBadChars
    /\ Cardinality({i \in 1..Len(s) : s[i] = ":"}) <= 1

HttpsScheme == <<"h", "t", "t", "p", "s">>

\* Uri::to_string of a Uri with scheme, authority and path_and_query
UriToString(parts) ==
    parts.scheme \o <<":", "/", "/">> \o parts.authority \o parts.path_and_query

make_https_keep_port(host, uri, from, to) ==
    LET pq == IF uri = None THEN <<"/">> ELSE uri[1]
    IN IF AuthorityParses(host)
       THEN [tag |-> "Ok",
             uri |-> UriToString([scheme |-> HttpsScheme, authority |-> host,
                                  path_and_query |-> pq])]
       ELSE [tag |-> "Err"]

make_https(host, uri, from, to) ==
    LET pq == IF uri = None THEN <<"/">> ELSE uri[1]
        https_host == replace(host, to_string(from), to_string(to))
    IN IF AuthorityParses(https_host)
       THEN [tag |-> "Ok",
             uri |-> UriToString([scheme |-> HttpsScheme, authority |-> https_host,
                                  path_and_query |-> pq])]
       ELSE [tag |-> "Err"]

\* Config.http when TLS is configured
HTTP_PORT_WITH_TLS == 80

(***************************************************************************)
(* Specification SpecRd: make_https called once on every Host of at most   *)
(* MaxRdHostLen characters over RdAlphabet, for each request URI of RdUris *)
(* and each TLS port of TlsPorts.                                          *)
(***************************************************************************)
RdAlphabet == {"a", "8", "0", ":", " "}
RdHosts == StringsUpTo(RdAlphabet, MaxRdHostLen)
RdUris == {None, Some(<<"/">>), Some(<<"/", "f", "?", "x", "=", "1">>)}
TlsPorts == {443, 8080}

InitRd ==
    /\ rdHost \in RdHosts
    /\ rdUri \in RdUris
    /\ rdTo \in TlsPorts
    /\ rdResult = [tag |-> "uncalled"]
    /\ ServerIdle
    /\ SubIdle

CallMakeHttps ==
    /\ rdResult.tag = "uncalled"
    /\ rdResult' = make_https(rdHost, rdUri, HTTP_PORT_WITH_TLS, rdTo)
    /\ UNCHANGED <<rdHost, rdUri, rdTo, serverVars, subVars>>

NextRd == CallMakeHttps

SpecRd == InitRd /\ [][NextRd]_vars

\* s contains pat as a contiguous piece
Contains(s, pat) == \E i \in 1..Len(s) : StartsWithAt(s, i, pat)

\* the part h of a Host of the form h:P, P the plaintext port; None otherwise
HostnameBeforePort(host, port) ==
    LET suffix == <<":">> \o to_string(port)
        n == Len(host) - Len(suffix)
    IN IF n >= 0 /\ StartsWithAt(host, n + 1, suffix)
       THEN Some(SubSeq(host, 1, n)) ELSE None

ExpectedTarget(h, T, uri) ==
    HttpsScheme \o <<":", "/", "/">> \o h \o <<":">> \o to_string(T)
        \o (IF uri = None THEN <<"/">> ELSE uri[1])

\* C4 as claimed: for every Host h:P the target make_https builds is
\* https://h:T followed by the request's path and query ("/" when it has
\* none), whatever h is.
C4_AsClaimed ==
    LET h == HostnameBeforePort(rdHost, HTTP_PORT_WITH_TLS)
    IN (rdResult.tag = "Ok" /\ h # None) =>
          rdResult.uri = ExpectedTarget(h[1], rdTo, rdUri)

\* C4 as amended: for every Host h:P whose h does not contain the decimal
\* digits of P, the target make_https builds is https://h:T followed by the
\* request's path and query ("/" when it has none).
C4_RedirectTarget ==
    LET h == HostnameBeforePort(rdHost, HTTP_PORT_WITH_TLS)
    IN (rdResult.tag = "Ok" /\ h # None /\ ~Contains(h[1], to_string(HTTP_PORT_WITH_TLS))) =>
          rdResult.uri = ExpectedTarget(h[1], rdTo, rdUri)

\* Host a:80, GET /f?x=1, TLS port 443: the target https://a:443/f?x=1 is built
C4_Witness ==
    /\ rdHost = <<"a", ":", "8", "0">>
    /\ rdUri = Some(<<"/", "f", "?", "x", "=", "1">>)
    /\ rdTo = 443
    /\ rdResult.tag = "Ok"
    /\ rdResult.uri = <<"h", "t", "t", "p", "s", ":", "/", "/", "a", ":", "4", "4", "3",
                        "/", "f", "?", "x", "=", "1">>

(***************************************************************************)
(* The server: main(), the content listener and the redirect listener.     *)
(***************************************************************************)
OK == 200
PERMANENT_REDIRECT == 308
BAD_REQUEST == 400
NOT_FOUND == 404

TextPlain == <<"content-type", "text/plain; charset=utf-8">>
XBraindead == <<"x-braindead", "never gonna give you up">>

\* PathBuf::push on unix: an absolute argument replaces the path; otherwise a
\* separator is added unless the path is empty or already ends with one
push(path, p) ==
    IF Len(p) > 0 /\ p[1] = "/" THEN p
    ELSE IF Len(path) > 0 /\ path[Len(path)] # "/" THEN path \o <<"/">> \o p
    ELSE path \o p

\* impl TryFrom<Args> for ServeMode, given a dir that is a directory
ServeMode_try_from(value) == [kind |-> value.mode, root |-> value.dir]

\* get_static_file, `let dir = match mode {...}`: the root handed to ServeDir,
\* or the early return
ResolveDir_path_pushes(m, host) ==
    LET label == subdomain(host)
    IN IF label = None
       THEN IF m.kind = "Path" THEN [tag |-> "Ok", dir |-> m.root] ELSE [tag |-> "Err"]
       ELSE [tag |-> "Ok", dir |-> push(m.root, label[1])]

ResolveDir(m, host) ==
    IF m.kind = "Path" THEN [tag |-> "Ok", dir |-> m.root]
    ELSE LET label == subdomain(host)
         IN IF label = None THEN [tag |-> "Err"]
            ELSE [tag |-> "Ok", dir |-> push(m.root, label[1])]

\* State(mode): the handler owns a clone of the router's ServeMode, and
\* `mut root_dir` is that clone's field: the router's value stays as it was
RouterStateAfter_pushed(m, resolved) ==
    IF resolved.tag = "Ok" THEN [m EXCEPT !.root = resolved.dir] ELSE m

RouterStateAfter(m, resolved) == m

\* ServeDir::new(dir).append_index_html_on_directories(true).try_call(req)
\* (tower-http): a missing file and a rejected path are answered by ServeDir
\* itself with 404; only an I/O error other than these comes back as Err
ServeDirOutcomes == {"found", "not_found", "invalid_path", "io_error"}
ServeDir_try_call(outcome) ==
    CASE outcome = "found" -> [tag |-> "Ok", resp |-> [status |-> OK, body |-> "file", headers |-> <<>>]]
      [] outcome \in {"not_found", "invalid_path"} ->
            [tag |-> "Ok", resp |-> [status |-> NOT_FOUND, body |-> "", headers |-> <<>>]]
      [] outcome = "io_error" -> [tag |-> "Err"]

\* (StatusCode, String) as IntoResponse
ErrorResponse(status, message) ==
    [status |-> status, body |-> message, headers |-> <<TextPlain>>]

\* get_static_file, the final match on try_call's result
get_static_file_result_passes_500(res) ==
    IF res.tag = "Ok" THEN res.resp
    ELSE [status |-> 500, body |-> "", headers |-> <<>>]

get_static_file_result(res) ==
    IF res.tag = "Ok" THEN res.resp
    ELSE ErrorResponse(BAD_REQUEST, "Oops!")

\* the Host extractor's rejection when the request names no host
HostRejection == ErrorResponse(BAD_REQUEST, "No host found in request")

\* most_important_middleware, after next.run(request).await
most_important_middleware_ok_only(response) ==
    IF response.status = OK
    THEN [response EXCEPT !.headers = Append(@, XBraindead)]
    ELSE response

most_important_middleware(response) ==
    [response EXCEPT !.headers = Append(@, XBraindead)]

\* redirect_http_to_https, the closure `redirect` (host: an Option, None when
\* the Host extractor rejects the request)
redirect_err_500(host, uri, http_port, https_port) ==
    IF host = None THEN HostRejection
    ELSE LET r == make_https(host[1], Some(uri), http_port, https_port)
         IN IF r.tag = "Ok"
            THEN [status |-> PERMANENT_REDIRECT, body |-> "", headers |-> <<<<"location", r.uri>>>>]
            ELSE [status |-> 500, body |-> "", headers |-> <<>>]

redirect(host, uri, http_port, https_port) ==
    IF host = None THEN HostRejection
    ELSE LET r == make_https(host[1], Some(uri), http_port, https_port)
         IN IF r.tag = "Ok"
            THEN [status |-> PERMANENT_REDIRECT, body |-> "", headers |-> <<<<"location", r.uri>>>>]
            ELSE [status |-> BAD_REQUEST, body |-> "", headers |-> <<>>]

(***************************************************************************)
(* Inputs of the server.                                                   *)
(***************************************************************************)
Roots == {<<"/", "r">>, <<"/", "r", "/">>}
Ports == {443, 8080}
ArgsSet == [tls : BOOLEAN, mode : {"Path", "Subdomain"}, dir : Roots, port : Ports]

\* Host values seen by the content listener: a.b.c, b.c, /a.b.c, ...b.c,
\* .b.c, and no host at all
ContentHosts ==
    { Some(<<"a", ".", "b", ".", "c">>),
      Some(<<"b", ".", "c">>),
      Some(<<"/", "a", ".", "b", ".", "c">>),
      Some(<<".", ".", ".", "b", ".", "c">>),
      Some(<<".", "b", ".", "c">>),
      None }

\* Host values seen by the redirect listener: a:80, "a a:80", and no host
RedirectHosts ==
    { Some(<<"a", ":", "8", "0">>),
      Some(<<"a", " ", "a", ":", "8", "0">>),
      None }

\* the request URI (origin form): /f?x=1
Uris == { <<"/", "f", "?", "x", "=", "1">> }

Slots == 1..MaxReq

Init ==
    /\ args \in ArgsSet
    /\ mainPc = "load_tls"
    /\ config = None
    /\ mode = None
    /\ redirPc = "none"
    /\ failures = {}
    /\ reqs = [s \in Slots |-> IdleSlot]
    /\ SubIdle
    /\ RdIdle

\* the process ends: every task and every connection goes with it
ProcessExit(cause) ==
    /\ mainPc' = "exited"
    /\ failures' = failures \cup {cause}
    /\ redirPc' = IF redirPc \in {"spawned", "serving"} THEN "stopped" ELSE redirPc
    /\ reqs' = [s \in Slots |-> IdleSlot]

\* main, lines 24-38: RustlsConfig::from_pem_file(..).await.unwrap()
LoadTls ==
    /\ mainPc = "load_tls"
    /\ IF args.tls
       THEN \E loaded \in BOOLEAN :
              IF loaded
              THEN /\ config' = Some([http |-> HTTP_PORT_WITH_TLS, https |-> Some(args.port)])
                   /\ mainPc' = "try_from"
                   /\ UNCHANGED <<failures, redirPc, reqs>>
              ELSE /\ ProcessExit("tls_credential")
                   /\ UNCHANGED config
       ELSE /\ config' = Some([http |-> args.port, https |-> None])
            /\ mainPc' = "try_from"
            /\ UNCHANGED <<failures, redirPc, reqs>>
    /\ UNCHANGED <<args, mode, subVars, rdVars>>

\* main, lines 40-45: ServeMode::try_from(args)? and the router built on it
TryFromArgs ==
    /\ mainPc = "try_from"
    /\ \E is_dir \in BOOLEAN :
         IF is_dir
         THEN /\ mode' = Some(ServeMode_try_from(args))
              /\ mainPc' = "match_config"
              /\ UNCHANGED <<failures, redirPc, reqs>>
         ELSE /\ ProcessExit("root_dir")
              /\ UNCHANGED mode
    /\ UNCHANGED <<args, config, subVars, rdVars>>

\* main, lines 47-50: tokio::spawn(redirect_http_to_https(..)) when TLS is on
SpawnRedirect ==
    /\ mainPc = "match_config"
    /\ redirPc' = IF config[1].https # None THEN "spawned" ELSE redirPc
    /\ mainPc' = "bind"
    /\ UNCHANGED <<args, config, mode, failures, reqs, subVars, rdVars>>

\* main, lines 52-60 and 63-71: bind(addr).serve(app).await.unwrap()
BindContent ==
    /\ mainPc = "bind"
    /\ \E bound \in BOOLEAN :
         IF bound
         THEN /\ mainPc' = "serving"
              /\ UNCHANGED <<failures, redirPc, reqs>>
         ELSE ProcessExit("bind_content")
    /\ UNCHANGED <<args, config, mode, subVars, rdVars>>

\* redirect_http_to_https, lines 235-240, in the spawned task: a failed bind
\* panics inside the task, which ends the task and nothing else
BindRedirect ==
    /\ redirPc = "spawned"
    /\ mainPc # "exited"
    /\ \E bound \in BOOLEAN :
         IF bound
         THEN /\ redirPc' = "serving"
              /\ UNCHANGED failures
         ELSE /\ redirPc' = "panicked"
              /\ failures' = failures \cup {"bind_redirect"}
    /\ UNCHANGED <<args, mainPc, config, mode, reqs, subVars, rdVars>>

\* a request on the content listener: the Host extractor, then get_static_file
\* up to the await of try_call (lines 133-158); a rejection or the early
\* return goes out through most_important_middleware at once
ContentRequest(s) ==
    /\ mainPc = "serving"
    /\ reqs[s].pc = "idle"
    /\ \E host \in ContentHosts, uri \in Uris :
         IF host = None
         THEN /\ reqs' = [reqs EXCEPT ![s] =
                    [IdleSlot EXCEPT !.pc = "done", !.listener = "content", !.uri = uri,
                                     !.resp = most_important_middleware(HostRejection)]]
              /\ UNCHANGED mode
         ELSE LET resolved == ResolveDir(mode[1], host[1])
              IN /\ mode' = Some(RouterStateAfter(mode[1], resolved))
                 /\ reqs' = [reqs EXCEPT ![s] =
                       IF resolved.tag = "Ok"
                       THEN [IdleSlot EXCEPT !.pc = "awaiting", !.listener = "content",
                                             !.host = host, !.uri = uri,
                                             !.dir = Some(resolved.dir)]
                       ELSE [IdleSlot EXCEPT !.pc = "done", !.listener = "content",
                                             !.host = host, !.uri = uri,
                                             !.resp = most_important_middleware(
                                                 ErrorResponse(BAD_REQUEST, "Oops 2!"))]]
    /\ UNCHANGED <<args, mainPc, config, redirPc, failures, subVars, rdVars>>

\* try_call completes (lines 159-162) and the response goes out through
\* most_important_middleware (lines 78-85)
DelegateReturns(s) ==
    /\ mainPc = "serving"
    /\ reqs[s].pc = "awaiting"
    /\ \E outcome \in ServeDirOutcomes :
         reqs' = [reqs EXCEPT ![s].pc = "done", ![s].outcome = outcome,
                              ![s].resp = most_important_middleware(
                                  get_static_file_result(ServeDir_try_call(outcome)))]
    /\ UNCHANGED <<args, mainPc, config, mode, redirPc, failures, subVars, rdVars>>

\* a request on the redirect listener (lines 225-233); the handler is served
\* bare, with no layer around it (line 238)
RedirectRequest(s) ==
    /\ redirPc = "serving"
    /\ mainPc # "exited"
    /\ reqs[s].pc = "idle"
    /\ \E host \in RedirectHosts, uri \in Uris :
         reqs' = [reqs EXCEPT ![s] =
             [IdleSlot EXCEPT !.pc = "done", !.listener = "redirect", !.host = host,
                              !.uri = uri,
                              !.resp = redirect(host, uri, config[1].http, config[1].https[1])]]
    /\ UNCHANGED <<args, mainPc, config, mode, redirPc, failures, subVars, rdVars>>

\* the response is written and the slot is free for a later request
Release(s) ==
    /\ mainPc # "exited"
    /\ reqs[s].pc = "done"
    /\ reqs' = [reqs EXCEPT ![s] = IdleSlot]
    /\ UNCHANGED <<args, mainPc, config, mode, redirPc, failures, subVars, rdVars>>

Next ==
    \/ LoadTls
    \/ TryFromArgs
    \/ SpawnRedirect
    \/ BindContent
    \/ BindRedirect
    \/ \E s \in Slots : ContentRequest(s)
    \/ \E s \in Slots : DelegateReturns(s)
    \/ \E s \in Slots : RedirectRequest(s)
    \/ \E s \in Slots : Release(s)

Spec == Init /\ [][Next]_vars

(***************************************************************************)
(* Properties of the server.                                               *)
(***************************************************************************)
HasHeader(resp, h) == \E i \in 1..Len(resp.headers) : resp.headers[i] = h

Answered(s) == reqs[s].pc = "done"
OnContent(s) == reqs[s].listener = "content"
OnRedirect(s) == reqs[s].listener = "redirect"

\* C1 as claimed: every response sent, on the content listener and on the
\* redirect listener alike, carries x-braindead: never gonna give you up.
C1_AsClaimed ==
    \A s \in Slots : Answered(s) => HasHeader(reqs[s].resp, XBraindead)

\* C1 as amended: every response sent on the content listener, whatever its
\* status, carries x-braindead: never gonna give you up.
C1_ContentHeader ==
    \A s \in Slots : (Answered(s) /\ OnContent(s)) => HasHeader(reqs[s].resp, XBraindead)

\* with TLS on, the content listener has answered one request with 200 and
\* another with 400, both with the header
C1_Witness ==
    /\ args.tls
    /\ \E s, t \in Slots :
         /\ Answered(s) /\ OnContent(s) /\ reqs[s].resp.status = OK
         /\ Answered(t) /\ OnContent(t) /\ reqs[t].resp.status = BAD_REQUEST
         /\ HasHeader(reqs[s].resp, XBraindead) /\ HasHeader(reqs[t].resp, XBraindead)

C3_AsClaimed ==
    \A s \in Slots : (Answered(s) /\ OnRedirect(s) /\ reqs[s].host # None) =>
        reqs[s].resp.status \in {301, PERMANENT_REDIRECT}

\* C3 as amended: a request to the plaintext port is answered with the
\* permanent redirect of Redirect::permanent (status 308) to the HTTPS URI
\* exactly when it names a Host that still parses as an authority after the
\* port substitution; every other request is answered 400.
C3_RedirectStatus ==
    \A s \in Slots : (Answered(s) /\ OnRedirect(s)) =>
        LET h == reqs[s].host
            rewritten == replace(h[1], to_string(HTTP_PORT_WITH_TLS), to_string(args.port))
            r == reqs[s].resp
        IN IF h # None /\ AuthorityParses(rewritten)
           THEN /\ r.status = PERMANENT_REDIRECT
                /\ HasHeader(r, <<"location",
                                  HttpsScheme \o <<":", "/", "/">> \o rewritten \o reqs[s].uri>>)
           ELSE r.status = BAD_REQUEST

\* the redirect listener has answered one request with the redirect and
\* another, whose Host does not parse, with 400
C3_Witness ==
    \E s, t \in Slots :
        /\ Answered(s) /\ OnRedirect(s) /\ reqs[s].resp.status = PERMANENT_REDIRECT
        /\ Answered(t) /\ OnRedirect(t) /\ reqs[t].host # None
        /\ reqs[t].resp.status = BAD_REQUEST

\* the segments of a path between separators, empty ones dropped, and
\* whether the path is absolute
RECURSIVE Segments(_)
Segments(p) ==
    LET hits == {i \in 1..Len(p) : p[i] = "/"}
    IN IF hits = {} THEN (IF p = <<>> THEN <<>> ELSE <<p>>)
       ELSE LET k == CHOOSE i \in hits : \A j \in hits : i <= j
                head == SubSeq(p, 1, k - 1)
            IN (IF head = <<>> THEN <<>> ELSE <<head>>) \o Segments(SubSeq(p, k + 1, Len(p)))

IsAbsolute(p) == Len(p) > 0 /\ p[1] = "/"
SamePath(p, q) == IsAbsolute(p) = IsAbsolute(q) /\ Segments(p) = Segments(q)

\* the sub-domain label of a host read off its labels: all but the last two
LabelOf(host) ==
    LET ls == Labels(host)
    IN IF Len(ls) >= 3 THEN Some(JoinDots(SubSeq(ls, 1, Len(ls) - 2))) ELSE None

Resolved(s) == OnContent(s) /\ reqs[s].host # None /\ reqs[s].pc \in {"awaiting", "done"}

\* C6: in SUBDOMAIN mode with root R, a request whose Host has the sub-domain
\* label L is served from R/L, and a request whose Host has none is answered
\* 400 without the delegate being called.
C6_AsClaimed ==
    \A s \in Slots : (Resolved(s) /\ args.mode = "Subdomain") =>
        LET L == LabelOf(reqs[s].host[1])
        IN IF L # None
           THEN /\ reqs[s].dir # None
                /\ SamePath(reqs[s].dir[1], args.dir \o <<"/">> \o L[1])
           ELSE /\ reqs[s].dir = None
                /\ reqs[s].outcome = "none"
                /\ reqs[s].pc = "done"
                /\ reqs[s].resp.status = BAD_REQUEST

\* C7: a start-up failure (TLS credential, root directory, either listener's
\* bind) ends the process: once one has happened main has exited, no listener
\* serves and no request is in flight.
C7_AsClaimed ==
    failures # {} =>
        /\ mainPc = "exited"
        /\ redirPc # "serving"
        /\ \A s \in Slots : reqs[s].pc = "idle"

\* what a request's slot must hold when nothing but the start-up arguments
\* and the request itself (its listener, Host, URI and the delegate's
\* outcome) decides it
AsIfAlone(a, r) ==
    IF r.listener = "content"
    THEN IF r.host = None
         THEN r.pc = "done" /\ r.resp = [status |-> BAD_REQUEST, body |-> "No host found in request",
                                         headers |-> <<TextPlain, XBraindead>>]
         ELSE LET root == IF a.mode = "Path" THEN Some(a.dir)
                          ELSE IF LabelOf(r.host[1]) = None THEN None
                          ELSE Some(push(a.dir, LabelOf(r.host[1])[1]))
              IN /\ r.dir = root
                 /\ root = None =>
                       (r.pc = "done" /\ r.resp = [status |-> BAD_REQUEST, body |-> "Oops 2!",
                                                   headers |-> <<TextPlain, XBraindead>>])
                 /\ (root # None /\ r.pc = "done") =>
                       r.resp = CASE r.outcome = "found" ->
                                       [status |-> OK, body |-> "file", headers |-> <<XBraindead>>]
                                  [] r.outcome \in {"not_found", "invalid_path"} ->
                                       [status |-> NOT_FOUND, body |-> "", headers |-> <<XBraindead>>]
                                  [] r.outcome = "io_error" ->
                                       [status |-> BAD_REQUEST, body |-> "Oops!",
                                        headers |-> <<TextPlain, XBraindead>>]
                                  [] OTHER -> NoResponse
    ELSE /\ r.pc = "done"
         /\ r.resp = IF r.host = None
                     THEN [status |-> BAD_REQUEST, body |-> "No host found in request",
                           headers |-> <<TextPlain>>]
                     ELSE LET m == make_https(r.host[1], Some(r.uri), HTTP_PORT_WITH_TLS, a.port)
                          IN IF m.tag = "Ok"
                             THEN [status |-> PERMANENT_REDIRECT, body |-> "",
                                   headers |-> <<<<"location", m.uri>>>>]
                             ELSE [status |-> BAD_REQUEST, body |-> "", headers |-> <<>>]

\* C8: request failures are request-scoped.  A step that handles a request
\* (and in which no start-up step fails) leaves main, the redirect task and
\* the router's state as they were, so every listener that was running still
\* runs; and after every step each request in flight or answered holds what
\* it would hold had no other request, failed or not, ever been made.
C8_RequestScoped ==
    [][ /\ (failures' = failures /\ reqs' # reqs) =>
              (mainPc' = mainPc /\ redirPc' = redirPc /\ mode' = mode)
        /\ \A s \in Slots : reqs'[s].pc # "idle" => AsIfAlone(args', reqs'[s]) ]_vars

\* one request has failed (400) on each listener's side while another is
\* answered 200, and both listeners still run
C8_Witness ==
    /\ mainPc = "serving" /\ redirPc = "serving"
    /\ \E s, t \in Slots :
         /\ Answered(s) /\ reqs[s].resp.status = BAD_REQUEST
         /\ Answered(t) /\ OnContent(t) /\ reqs[t].resp.status = OK

\* C9: request handling never changes the ServeMode built at start-up: the
\* router holds the configured mode and root R throughout; in PATH mode every
\* request is served from R whatever its Host, and in SUBDOMAIN mode every
\* request's root is R with that request's own label pushed, once.
C9_ModeUnchanged ==
    /\ mode # None => mode = Some([kind |-> args.mode, root |-> args.dir])
    /\ \A s \in Slots : (Resolved(s) /\ reqs[s].dir # None) =>
          IF args.mode = "Path" THEN reqs[s].dir = Some(args.dir)
          ELSE reqs[s].dir = Some(push(args.dir, LabelOf(reqs[s].host[1])[1]))

\* SUBDOMAIN mode: one request waits for the delegate on R/a while another,
\* resolved on R/a too, is answered, and the router still holds R
C9_Witness ==
    /\ args.mode = "Subdomain"
    /\ mode = Some([kind |-> "Subdomain", root |-> args.dir])
    /\ \E s, t \in Slots :
         /\ s # t
         /\ reqs[s].pc = "awaiting" /\ reqs[t].pc = "done"
         /\ reqs[s].host = Some(<<"a", ".", "b", ".", "c">>) /\ reqs[t].host = reqs[s].host
         /\ reqs[s].dir = Some(push(args.dir, <<"a">>)) /\ reqs[t].dir = reqs[s].dir

\* dir is root with exactly one ordinary segment added
IsChildOf(dir, root) ==
    /\ IsAbsolute(dir) = IsAbsolute(root)
    /\ Len(Segments(dir)) = Len(Segments(root)) + 1
    /\ SubSeq(Segments(dir), 1, Len(Segments(root))) = Segments(root)
    /\ Segments(dir)[Len(Segments(dir))] \notin {<<".">>, <<".", ".">>}

\* C10: in SUBDOMAIN mode the root handed to the delegate is the configured
\* root R with exactly one more path segment, a strict descendant of R,
\* whatever the Host was.
C10_AsClaimed ==
    \A s \in Slots : (Resolved(s) /\ args.mode = "Subdomain" /\ reqs[s].dir # None) =>
        IsChildOf(reqs[s].dir[1], args.dir)

====
